---- MODULE Spec2Model ----
(***************************************************************************)
(* Model of homework_bot: the poll loop of homework.py (main) and the      *)
(* functions it calls (check_tokens, get_api_answer, check_response,       *)
(* parse_status, send_message).                                            *)
(*                                                                         *)
(* Python values are tagged records [t |-> <type name>, v |-> <payload>];  *)
(* a dict is a function from its keys, so an absent key and a key bound to *)
(* None are different values.  The Russian message texts of the source are *)
(* rendered in ASCII; each rendering is distinct whenever the source texts *)
(* are distinct.                                                           *)
(***************************************************************************)
EXTENDS Integers, Sequences, FiniteSets, TLC

(***************************************************************************)
(* Python values                                                           *)
(***************************************************************************)
None == [t |-> "NoneType"]
PyStr(s) == [t |-> "str", v |-> s]
PyInt(i) == [t |-> "int", v |-> i]
PyBool(b) == [t |-> "bool", v |-> b]
PyFloat(s) == [t |-> "float", v |-> s]
PyList(s) == [t |-> "list", v |-> s]
PyDict(f) == [t |-> "dict", v |-> f]
EmptyDict == PyDict(<<>>)

\* isinstance(x, int): bool is a subclass of int
IsInt(x) == x.t \in {"int", "bool"}

\* isinstance(x, list)
IsList(x) == x.t = "list"

\* isinstance(x, dict)
IsDict(x) == x.t = "dict"

\* truth value of x, as `not x` and `x or y` take it
Truthy(x) ==
    CASE x.t = "NoneType" -> FALSE
      [] x.t = "str" -> x.v # ""
      [] x.t = "int" -> x.v # 0
      [] x.t = "bool" -> x.v
      [] x.t = "float" -> x.v # "0.0"
      [] x.t = "list" -> Len(x.v) > 0
      [] x.t = "dict" -> DOMAIN x.v # {}

\* hash(x) is defined: lists and dicts are unhashable
Hashable(x) == x.t \notin {"list", "dict"}

\* d.get(k)
Get(d, k) == IF k \in DOMAIN d.v THEN d.v[k] ELSE None

\* the default is taken even when the key is there
GetDefault_Ignored(d, k, default) == default

\* d.get(k, default)
GetDefault(d, k, default) == IF k \in DOMAIN d.v THEN d.v[k] ELSE default

\* f'{x}' for the values that are formatted into a message
Format(x) ==
    CASE x.t = "str" -> x.v
      [] x.t = "int" -> ToString(x.v)
      [] x.t = "bool" -> IF x.v THEN "True" ELSE "False"
      [] x.t = "float" -> x.v
      [] x.t = "NoneType" -> "None"
      [] x.t = "list" -> "[...]"
      [] x.t = "dict" -> "{...}"

(***************************************************************************)
(* Exceptions and call results                                             *)
(***************************************************************************)
\* an exception instance that is not yet bound to an address
Exc(type, args) == [type |-> type, args |-> args]

Raise(e) == [kind |-> "raise", exc |-> e]
Return(x) == [kind |-> "return", value |-> x]

\* str(error): KeyError shows the repr of a single argument, and every
\* exception shows the tuple of its arguments when there are several
ExcStr(e) ==
    IF Len(e.args) # 1 THEN <<"(">> \o e.args \o <<")">>
    ELSE IF e.type = "KeyError" THEN <<"'", e.args[1], "'">>
    ELSE e.args

(***************************************************************************)
(* config.py                                                               *)
(***************************************************************************)
\* a tenth of the interval
RETRY_TIME_Short == 600 \div 10

RETRY_TIME == 600

HTTP_STATUSES_URL == "https://ru.wikipedia.org/wiki/HTTP_status_codes#"

HOMEWORK_STATUSES ==
    [approved |-> "Work checked: the reviewer liked everything. Hooray!",
     reviewing |-> "Work taken for review by the reviewer.",
     rejected |-> "Work checked: the reviewer has remarks."]

(***************************************************************************)
(* check_tokens                                                            *)
(***************************************************************************)
TokenNames == <<"PRACTICUM_TOKEN", "TELEGRAM_TOKEN", "TELEGRAM_CHAT_ID">>

\* TELEGRAM_CHAT_ID is left out of the check
check_tokens_TwoOnly(env) ==
    ~ \E i \in 1..2 : ~Truthy(env[TokenNames[i]])

check_tokens(env) ==
    ~ \E i \in 1..Len(TokenNames) : ~Truthy(env[TokenNames[i]])

(***************************************************************************)
(* get_api_answer                                                          *)
(***************************************************************************)
\* timestamp = current_timestamp or int(time.time())
FromDate(current_timestamp, now) ==
    IF Truthy(current_timestamp) THEN current_timestamp ELSE PyInt(now)

\* The outcome of requests.get is http: either the transport failed or a
\* response with a status_code and a body arrived; the body is "invalid"
\* (response.json() raises) or the value response.json() decodes.
Undecodable == [t |-> "invalid"]

\* the body is decoded before the status code is looked at
get_api_answer_DecodesFirst(http) ==
    IF http.transport = "fail"
    THEN Raise(Exc("EndpointNotAvailable", <<"Request to endpoint failed: connection error">>))
    ELSE IF http.body = Undecodable
    THEN Raise(Exc("InvalidJSONError", <<"Response to json transform failed: bad json">>))
    ELSE IF 400 <= http.status_code /\ http.status_code < 500
    THEN Raise(Exc("HTTPError",
            <<"Client error. Code: " \o ToString(http.status_code) \o ". More: "
              \o HTTP_STATUSES_URL \o ToString(http.status_code)>>))
    ELSE IF 500 <= http.status_code /\ http.status_code < 600
    THEN Raise(Exc("HTTPError",
            <<"Server error. Code: " \o ToString(http.status_code) \o ". More: "
              \o HTTP_STATUSES_URL \o ToString(http.status_code)>>))
    ELSE Return(http.body)

get_api_answer(http) ==
    IF http.transport = "fail"
    THEN Raise(Exc("EndpointNotAvailable", <<"Request to endpoint failed: connection error">>))
    ELSE IF 400 <= http.status_code /\ http.status_code < 500
    THEN Raise(Exc("HTTPError",
            <<"Client error. Code: " \o ToString(http.status_code) \o ". More: "
              \o HTTP_STATUSES_URL \o ToString(http.status_code)>>))
    ELSE IF 500 <= http.status_code /\ http.status_code < 600
    THEN Raise(Exc("HTTPError",
            <<"Server error. Code: " \o ToString(http.status_code) \o ". More: "
              \o HTTP_STATUSES_URL \o ToString(http.status_code)>>))
    ELSE IF http.body = Undecodable
    THEN Raise(Exc("InvalidJSONError", <<"Response to json transform failed: bad json">>))
    ELSE Return(http.body)

(***************************************************************************)
(* check_response                                                          *)
(***************************************************************************)
\* the type of 'homeworks' is checked before 'current_date' is looked up
check_response_ListFirst(response) ==
    IF ~IsDict(response)
    THEN Raise(Exc("TypeError", <<"API response is not a dict">>))
    ELSE IF Get(response, "homeworks") = None
    THEN Raise(Exc("KeyError", <<"API response has no homeworks. Response: ", response>>))
    ELSE IF ~IsList(Get(response, "homeworks"))
    THEN Raise(Exc("TypeError", <<"Value under 'homeworks' is not a list">>))
    ELSE IF Get(response, "current_date") = None
    THEN Raise(Exc("KeyError", <<"API response has no request time">>))
    ELSE IF ~IsInt(Get(response, "current_date"))
    THEN Raise(Exc("TypeError", <<"Value under 'current_date' is not int">>))
    ELSE Return(Get(response, "homeworks"))

check_response(response) ==
    IF ~IsDict(response)
    THEN Raise(Exc("TypeError", <<"API response is not a dict">>))
    ELSE IF Get(response, "homeworks") = None
    THEN Raise(Exc("KeyError", <<"API response has no homeworks. Response: ", response>>))
    ELSE IF Get(response, "current_date") = None
    THEN Raise(Exc("KeyError", <<"API response has no request time">>))
    ELSE IF ~IsList(Get(response, "homeworks"))
    THEN Raise(Exc("TypeError", <<"Value under 'homeworks' is not a list">>))
    ELSE IF ~IsInt(Get(response, "current_date"))
    THEN Raise(Exc("TypeError", <<"Value under 'current_date' is not int">>))
    ELSE Return(Get(response, "homeworks"))

(***************************************************************************)
(* parse_status                                                            *)
(***************************************************************************)
\* HOMEWORK_STATUSES.get(homework_status), for a hashable homework_status
Verdict(homework_status) ==
    IF homework_status.t = "str" /\ homework_status.v \in DOMAIN HOMEWORK_STATUSES
    THEN PyStr(HOMEWORK_STATUSES[homework_status.v])
    ELSE None

StatusMessage(homework_name, verdict) ==
    "Status of work changed \"" \o Format(homework_name) \o "\". " \o verdict.v

\* the status is looked up before the name
parse_status_StatusFirst(homework) ==
    IF ~IsDict(homework)
    THEN Raise(Exc("AttributeError", <<"object has no attribute 'get'">>))
    ELSE IF Get(homework, "status") = None
    THEN Raise(Exc("KeyError", <<"No homework status in API response">>))
    ELSE IF Get(homework, "homework_name") = None
    THEN Raise(Exc("KeyError", <<"No homework name in API response">>))
    ELSE IF ~Hashable(Get(homework, "status"))
    THEN Raise(Exc("TypeError", <<"unhashable type">>))
    ELSE IF Verdict(Get(homework, "status")) = None
    THEN Raise(Exc("UnknownHomeworkStatus",
            <<"Unknown homework status: " \o Format(Get(homework, "status"))>>))
    ELSE Return(PyStr(StatusMessage(Get(homework, "homework_name"),
                                    Verdict(Get(homework, "status")))))

\* an uncatalogued status is formatted as it is instead of being rejected
parse_status_Lenient(homework) ==
    IF ~IsDict(homework)
    THEN Raise(Exc("AttributeError", <<"object has no attribute 'get'">>))
    ELSE IF Get(homework, "homework_name") = None
    THEN Raise(Exc("KeyError", <<"No homework name in API response">>))
    ELSE IF Get(homework, "status") = None
    THEN Raise(Exc("KeyError", <<"No homework status in API response">>))
    ELSE IF ~Hashable(Get(homework, "status"))
    THEN Raise(Exc("TypeError", <<"unhashable type">>))
    ELSE IF Verdict(Get(homework, "status")) = None
    THEN Return(PyStr(StatusMessage(Get(homework, "homework_name"),
                                    PyStr(Format(Get(homework, "status"))))))
    ELSE Return(PyStr(StatusMessage(Get(homework, "homework_name"),
                                    Verdict(Get(homework, "status")))))

parse_status(homework) ==
    IF ~IsDict(homework)
    THEN Raise(Exc("AttributeError", <<"object has no attribute 'get'">>))
    ELSE IF Get(homework, "homework_name") = None
    THEN Raise(Exc("KeyError", <<"No homework name in API response">>))
    ELSE IF Get(homework, "status") = None
    THEN Raise(Exc("KeyError", <<"No homework status in API response">>))
    ELSE IF ~Hashable(Get(homework, "status"))
    THEN Raise(Exc("TypeError", <<"unhashable type">>))
    ELSE IF Verdict(Get(homework, "status")) = None
    THEN Raise(Exc("UnknownHomeworkStatus",
            <<"Unknown homework status: " \o Format(Get(homework, "status"))>>))
    ELSE Return(PyStr(StatusMessage(Get(homework, "homework_name"),
                                    Verdict(Get(homework, "status")))))

(***************************************************************************)
(* send_message                                                            *)
(***************************************************************************)
\* bot.send_message either delivers the text or raises
BotOutcomes == {"delivered", "failed"}

\* no try/except around bot.send_message
send_message_Propagates(message, outcome) ==
    IF outcome = "delivered" THEN Return(None)
    ELSE Raise(Exc("TelegramError", <<"delivery failed">>))

\* try: bot.send_message(...) except Exception: logger.error(...)
send_message(message, outcome) ==
    IF outcome = "delivered" THEN Return(None) ELSE Return(None)

(***************************************************************************)
(* Inputs of the poll loop                                                 *)
(***************************************************************************)
MaxItems == 2

\* values of an environment variable: unset, empty, set
TokenValues == {None, PyStr(""), PyStr("token")}
Environments == [{TokenNames[i] : i \in 1..Len(TokenNames)} -> TokenValues]

\* readings of int(time.time())
Times == {1000}

Absent == [t |-> "absent"]

\* the dict with the keys of f that are not Absent
MkDict(f) == PyDict([k \in {x \in DOMAIN f : f[x] # Absent} |-> f[k]])

Homework(name, status) == MkDict([homework_name |-> name, status |-> status])

LoopHomeworks ==
    {Homework(PyStr("hw1"), PyStr("approved")),
     Homework(PyStr("hw2"), PyStr("rejected")),
     Homework(PyStr("hw1"), PyStr("unknown_code")),
     Homework(Absent, PyStr("reviewing"))}

SeqsUpTo(S, n) == UNION {[1..k -> S] : k \in 0..n}

ApiResponse(homeworks, current_date) ==
    MkDict([homeworks |-> homeworks, current_date |-> current_date])

LoopBodies ==
    {ApiResponse(PyList(hs), d) : hs \in SeqsUpTo(LoopHomeworks, MaxItems),
                                  d \in {PyInt(0), PyInt(1600)}}
    \cup {ApiResponse(Absent, PyInt(1600)),
          ApiResponse(PyList(<<>>), None),
          ApiResponse(PyStr("not-a-list"), PyInt(1)),
          ApiResponse(PyList(<<>>), PyStr("1600")),
          PyList(<<>>),
          Undecodable}

LoopHttp ==
    {[transport |-> "fail"]}
    \cup {[transport |-> "ok", status_code |-> s, body |-> b] :
            s \in {200, 404, 503}, b \in LoopBodies}

(***************************************************************************)
(* main                                                                    *)
(***************************************************************************)
VARIABLES
    pc,                 \* position in main
    env,                \* env_vars: the three tokens
    current_timestamp,  \* the cursor
    PREVIOUS_ERROR,
    response,
    homeworks_list,
    idx,                \* position of the for loop in homeworks_list
    error,              \* the exception bound by `except ... as error`
    sent,               \* calls of send_message in this cycle
    requests,           \* GETs issued in this cycle
    sleeps,             \* calls of time.sleep in this cycle
    slept_for,          \* argument of the last time.sleep
    start,              \* the cursor and PREVIOUS_ERROR when this cycle began
    cycle_error,        \* str() of the exception this cycle raised
    prev,               \* what the previous cycle requested, sent and raised
    arg,                \* argument of a function called on its own
    result              \* what that call returned or raised

vars == <<pc, env, current_timestamp, PREVIOUS_ERROR, response, homeworks_list,
          idx, error, sent, requests, sleeps, slept_for, start, cycle_error,
          prev, arg, result>>

NoError == [t |-> "none"]
NoPrev == [from_date |-> None, statuses |-> {}, error |-> NoError]

\* addresses of exception objects; an object bound to a name keeps its address
Addrs == {1, 2}

IsException(x) == x.t = "exception"

\* a new exception object: it is allocated while the object PREVIOUS_ERROR
\* refers to is alive, so it is at another address
NewException(e, live) ==
    [t |-> "exception",
     id |-> CHOOSE a \in Addrs : ~(IsException(live) /\ live.id = a),
     type |-> e.type, args |-> e.args]

\* error != PREVIOUS_ERROR: exception classes define no __eq__, so the
\* comparison is by object identity; an exception never equals a str
NotEqual(x, y) ==
    IF IsException(x) /\ IsException(y) THEN x.id # y.id ELSE x # y

\* message = f'Error at work: {error}'
ErrorMessage(e) == <<"Error at work: ">> \o ExcStr(e)

\* the GETs one call of get_api_answer issues
ApiRequests(timestamp, now) == <<[from_date |-> FromDate(timestamp, now)]>>

NotCalled == [kind |-> "not called"]

AtStart(cursor, previous_error) ==
    [cursor |-> cursor, PREVIOUS_ERROR |-> previous_error]

\* line 140 and the locals of main before their first assignment
InitMain ==
    /\ pc = "main"
    /\ current_timestamp = None
    /\ PREVIOUS_ERROR = PyStr("")
    /\ response = None
    /\ homeworks_list = <<>>
    /\ idx = 0
    /\ error = NoError
    /\ sent = <<>>
    /\ requests = <<>>
    /\ sleeps = 0
    /\ slept_for = 0
    /\ start = AtStart(None, PyStr(""))
    /\ cycle_error = NoError
    /\ prev = NoPrev

Init ==
    /\ env \in Environments
    /\ InitMain
    /\ arg = None
    /\ result = NotCalled

\* the exception e leaves the try block
Caught(e) ==
    /\ error' = NewException(e, PREVIOUS_ERROR)
    /\ cycle_error' = [t |-> "text", v |-> ExcStr(e)]
    /\ pc' = "except"

\* lines 140-146
Main ==
    /\ pc = "main"
    /\ IF ~check_tokens(env)
       THEN /\ pc' = "exited"
            /\ UNCHANGED <<current_timestamp, start>>
       ELSE /\ \E now \in Times :
                /\ current_timestamp' = PyInt(now)
                /\ start' = AtStart(PyInt(now), PREVIOUS_ERROR)
            /\ pc' = "get_api_answer"
    /\ UNCHANGED <<env, PREVIOUS_ERROR, response, homeworks_list, idx, error,
                   sent, requests, sleeps, slept_for, cycle_error, prev, arg, result>>

\* line 149
GetApiAnswer ==
    /\ pc = "get_api_answer"
    /\ \E http \in LoopHttp, now \in Times :
        /\ requests' = requests \o ApiRequests(current_timestamp, now)
        /\ LET r == get_api_answer(http) IN
            IF r.kind = "raise"
            THEN /\ Caught(r.exc)
                 /\ UNCHANGED response
            ELSE /\ response' = r.value
                 /\ pc' = "check_response"
                 /\ UNCHANGED <<error, cycle_error>>
    /\ sleeps' = 0
    /\ UNCHANGED <<env, current_timestamp, PREVIOUS_ERROR, homeworks_list, idx,
                   sent, slept_for, start, prev, arg, result>>

\* lines 150-151, 155-158
CheckResponse ==
    /\ pc = "check_response"
    /\ LET r == check_response(response) IN
        IF r.kind = "raise"
        THEN /\ Caught(r.exc)
             /\ UNCHANGED <<homeworks_list, idx>>
        ELSE /\ homeworks_list' = r.value.v
             /\ idx' = 1
             /\ pc' = IF Len(r.value.v) > 0 THEN "for_homework" ELSE "advance"
             /\ UNCHANGED <<error, cycle_error>>
    /\ UNCHANGED <<env, current_timestamp, PREVIOUS_ERROR, response, sent,
                   requests, sleeps, slept_for, start, prev, arg, result>>

\* the for loop is left after its first iteration
ForHomework_Break ==
    /\ pc = "for_homework"
    /\ LET r == parse_status(homeworks_list[idx]) IN
        IF r.kind = "raise"
        THEN /\ Caught(r.exc)
             /\ UNCHANGED <<idx, sent>>
        ELSE \E outcome \in BotOutcomes :
             LET s == send_message(r.value, outcome) IN
             /\ sent' = Append(sent, [by |-> "for_homework", text |-> r.value,
                                      outcome |-> outcome])
             /\ IF s.kind = "raise"
                THEN /\ Caught(s.exc)
                     /\ UNCHANGED idx
                ELSE /\ idx' = idx + 1
                     /\ pc' = "advance"
                     /\ UNCHANGED <<error, cycle_error>>
    /\ UNCHANGED <<env, current_timestamp, PREVIOUS_ERROR, response,
                   homeworks_list, requests, sleeps, slept_for, start, prev, arg, result>>

\* lines 152-154: one iteration of the for loop
ForHomework ==
    /\ pc = "for_homework"
    /\ LET r == parse_status(homeworks_list[idx]) IN
        IF r.kind = "raise"
        THEN /\ Caught(r.exc)
             /\ UNCHANGED <<idx, sent>>
        ELSE \E outcome \in BotOutcomes :
             LET s == send_message(r.value, outcome) IN
             /\ sent' = Append(sent, [by |-> "for_homework", text |-> r.value,
                                      outcome |-> outcome])
             /\ IF s.kind = "raise"
                THEN /\ Caught(s.exc)
                     /\ UNCHANGED idx
                ELSE /\ idx' = idx + 1
                     /\ pc' = IF idx + 1 > Len(homeworks_list)
                              THEN "advance" ELSE "for_homework"
                     /\ UNCHANGED <<error, cycle_error>>
    /\ UNCHANGED <<env, current_timestamp, PREVIOUS_ERROR, response,
                   homeworks_list, requests, sleeps, slept_for, start, prev, arg, result>>

\* lines 159-162
AdvanceCursor ==
    /\ pc = "advance"
    /\ \E now \in Times :
        current_timestamp' = GetDefault(response, "current_date", PyInt(now))
    /\ pc' = "finally"
    /\ UNCHANGED <<env, PREVIOUS_ERROR, response, homeworks_list, idx, error,
                   sent, requests, sleeps, slept_for, start, cycle_error, prev, arg, result>>

\* lines 163-168
Except ==
    /\ pc = "except"
    /\ IF NotEqual(error, PREVIOUS_ERROR)
       THEN /\ PREVIOUS_ERROR' = error
            /\ \E outcome \in BotOutcomes :
                LET s == send_message(ErrorMessage(error), outcome) IN
                /\ sent' = Append(sent, [by |-> "except",
                                         text |-> ErrorMessage(error),
                                         outcome |-> outcome])
                /\ pc' = IF s.kind = "raise" THEN "finally_reraise" ELSE "finally"
       ELSE /\ pc' = "finally"
            /\ UNCHANGED <<PREVIOUS_ERROR, sent>>
    /\ error' = NoError
    /\ UNCHANGED <<env, current_timestamp, response, homeworks_list, idx,
                   requests, sleeps, slept_for, start, cycle_error, prev, arg, result>>

StatusTexts(log) ==
    {log[i].text : i \in {j \in 1..Len(log) : log[j].by = "for_homework"}}

\* lines 169-170; response and homeworks_list are assigned again before the
\* next cycle reads them, so the model drops their values here
Finally ==
    /\ pc \in {"finally", "finally_reraise"}
    /\ sleeps' = sleeps + 1
    /\ slept_for' = RETRY_TIME
    /\ pc' = IF pc = "finally" THEN "get_api_answer" ELSE "crashed"
    /\ prev' = [from_date |-> requests[Len(requests)].from_date,
                statuses |-> StatusTexts(sent),
                error |-> cycle_error]
    /\ sent' = <<>>
    /\ requests' = <<>>
    /\ cycle_error' = NoError
    /\ start' = AtStart(current_timestamp, PREVIOUS_ERROR)
    /\ response' = None
    /\ homeworks_list' = <<>>
    /\ idx' = 0
    /\ UNCHANGED <<env, current_timestamp, PREVIOUS_ERROR, error, arg, result>>

Next ==
    \/ Main
    \/ GetApiAnswer
    \/ CheckResponse
    \/ ForHomework
    \/ AdvanceCursor
    \/ Except
    \/ Finally

Spec == Init /\ [][Next]_vars

TypeOK ==
    /\ pc \in {"main", "exited", "get_api_answer", "check_response",
               "for_homework", "advance", "except", "finally",
               "finally_reraise", "crashed"}
    /\ Len(sent) <= MaxItems + 1

(***************************************************************************)
(* The functions called on their own, on inputs wider than the poll loop   *)
(* draws                                                                   *)
(***************************************************************************)
AllSet == [k \in {TokenNames[i] : i \in 1..Len(TokenNames)} |-> PyStr("token")]

InitCall(inputs) ==
    /\ env = AllSet
    /\ InitMain
    /\ arg \in inputs
    /\ result = NotCalled

Frame ==
    UNCHANGED <<pc, env, current_timestamp, PREVIOUS_ERROR, response,
                homeworks_list, idx, error, sent, sleeps, slept_for, start,
                cycle_error, prev, arg>>

\* --- get_api_answer(current_timestamp) against one outcome of the GET
HttpStatuses == {100, 200, 204, 301, 399, 400, 404, 499, 500, 503, 599, 600}

HttpBodies ==
    {Undecodable, None, EmptyDict, PyList(<<>>),
     ApiResponse(PyList(<<Homework(PyStr("hw1"), PyStr("approved"))>>), PyInt(1600))}

HttpOutcomes ==
    {[transport |-> "fail"]}
    \cup {[transport |-> "ok", status_code |-> s, body |-> b] :
            s \in HttpStatuses, b \in HttpBodies}

ApiCalls ==
    {[current_timestamp |-> c, now |-> n, http |-> h] :
        c \in {PyInt(0), PyInt(1600)}, n \in Times, h \in HttpOutcomes}

CallGetApiAnswer ==
    /\ result = NotCalled
    /\ requests' = requests \o ApiRequests(arg.current_timestamp, arg.now)
    /\ result' = get_api_answer(arg.http)
    /\ Frame

SpecGetApiAnswer == InitCall(ApiCalls) /\ [][CallGetApiAnswer]_vars

\* --- check_response(response)
HomeworksValues ==
    {Absent, None, PyStr("not-a-list"), PyInt(3), PyBool(FALSE), EmptyDict,
     PyList(<<>>), PyList(<<Homework(PyStr("hw1"), PyStr("approved"))>>),
     PyList(<<PyStr("x"), Homework(Absent, Absent)>>)}

CurrentDateValues ==
    {Absent, None, PyInt(0), PyInt(1), PyBool(TRUE), PyFloat("1.5"),
     PyStr("1"), PyList(<<>>)}

Responses ==
    {ApiResponse(h, d) : h \in HomeworksValues, d \in CurrentDateValues}
    \cup {None, PyList(<<>>), PyStr("homeworks"), PyInt(1)}

CallCheckResponse ==
    /\ result = NotCalled
    /\ result' = check_response(arg)
    /\ UNCHANGED requests
    /\ Frame

SpecCheckResponse == InitCall(Responses) /\ [][CallCheckResponse]_vars

\* --- parse_status(homework)
NameValues == {Absent, None, PyStr("hw1"), PyStr(""), PyInt(7)}

StatusValues ==
    {Absent, None, PyStr("approved"), PyStr("reviewing"), PyStr("rejected"),
     PyStr("unknown_code"), PyStr(""), PyInt(1), PyList(<<>>), EmptyDict,
     PyList(<<PyStr("approved")>>)}

HomeworkValues ==
    {Homework(n, s) : n \in NameValues, s \in StatusValues}
    \cup {None, PyStr("hw1"), PyList(<<>>)}

CallParseStatus ==
    /\ result = NotCalled
    /\ result' = parse_status(arg)
    /\ UNCHANGED requests
    /\ Frame

SpecParseStatus == InitCall(HomeworkValues) /\ [][CallParseStatus]_vars

(***************************************************************************)
(* Properties                                                              *)
(***************************************************************************)
\* the call r raised an exception of class type whose first argument is text
Raised(r, type, text) ==
    /\ r.kind = "raise"
    /\ r.exc.type = type
    /\ r.exc.args[1] = text

HasKey(d, k) == k \in DOMAIN d.v

\* --- C8 ---------------------------------------------------------------
C8_HttpErrorText(code) ==
    (IF code < 500 THEN "Client error. Code: " ELSE "Server error. Code: ")
    \o ToString(code) \o ". More: " \o HTTP_STATUSES_URL \o ToString(code)

\* C8: get_api_answer issues exactly one GET, and its result is decided by
\* the first of these that applies: a transport failure raises
\* EndpointNotAvailable; a status code in [400, 600) raises an HTTPError
\* whose text carries the code, whatever the body is; an undecodable body
\* raises InvalidJSONError; otherwise the decoded body is returned.
C8_Classification ==
    result # NotCalled =>
        /\ Len(requests) = 1
        /\ requests[1].from_date =
              (IF arg.current_timestamp.v # 0 THEN arg.current_timestamp
               ELSE PyInt(arg.now))
        /\ IF arg.http.transport = "fail"
           THEN /\ result.kind = "raise"
                /\ result.exc.type = "EndpointNotAvailable"
           ELSE IF arg.http.status_code \in 400..599
           THEN Raised(result, "HTTPError", C8_HttpErrorText(arg.http.status_code))
           ELSE IF arg.http.body = Undecodable
           THEN /\ result.kind = "raise"
                /\ result.exc.type = "InvalidJSONError"
           ELSE result = Return(arg.http.body)

\* a 503 with an undecodable body has been classified as an HTTPError
C8_Witness ==
    /\ result # NotCalled
    /\ arg.http.transport = "ok"
    /\ arg.http.status_code = 503
    /\ arg.http.body = Undecodable
    /\ result.kind = "raise"
    /\ result.exc.type = "HTTPError"

\* --- C6 ---------------------------------------------------------------
C6_Text(check) ==
    CASE check = 1 -> "API response is not a dict"
      [] check = 2 -> "API response has no homeworks. Response: "
      [] check = 3 -> "API response has no request time"
      [] check = 4 -> "Value under 'homeworks' is not a list"
      [] check = 5 -> "Value under 'current_date' is not int"

C6_Class(check) == IF check \in {2, 3} THEN "KeyError" ELSE "TypeError"

\* the first failing check decides the exception; 0: every check passes
C6_Decides(r, res, failing) ==
    IF failing = 0
    THEN res = Return(r.v["homeworks"])
    ELSE Raised(res, C6_Class(failing), C6_Text(failing))

\* checks 2 and 3 as "the key is present"
C6_FirstFailingPresent(r) ==
    IF ~IsDict(r) THEN 1
    ELSE IF ~HasKey(r, "homeworks") THEN 2
    ELSE IF ~HasKey(r, "current_date") THEN 3
    ELSE IF r.v["homeworks"].t # "list" THEN 4
    ELSE IF r.v["current_date"].t \notin {"int", "bool"} THEN 5
    ELSE 0

\* checks 2 and 3 as "the key is present and its value is not None"
C6_FirstFailingNotNone(r) ==
    IF ~IsDict(r) THEN 1
    ELSE IF ~HasKey(r, "homeworks") \/ r.v["homeworks"] = None THEN 2
    ELSE IF ~HasKey(r, "current_date") \/ r.v["current_date"] = None THEN 3
    ELSE IF r.v["homeworks"].t # "list" THEN 4
    ELSE IF r.v["current_date"].t \notin {"int", "bool"} THEN 5
    ELSE 0

\* C6 as stated: the checks are mapping, 'homeworks' present, 'current_date'
\* present, 'homeworks' a list, 'current_date' an int; the first failing
\* one decides the exception, and the list is returned iff all five pass.
C6_AsStated ==
    result # NotCalled =>
        LET failing == C6_FirstFailingPresent(arg) IN
        IF failing = 0
        THEN result = Return(arg.v["homeworks"])
        ELSE result.kind = "raise" /\ result.exc.type = C6_Class(failing)

\* C6 amended: as stated, but checks 2 and 3 also fail when the key is
\* bound to None; check_response({}) reports the missing homeworks, and
\* {homeworks: "not-a-list", current_date: 1} is a TypeError.
C6_CheckOrder ==
    result # NotCalled =>
        /\ C6_Decides(arg, result, C6_FirstFailingNotNone(arg))
        /\ arg = EmptyDict => Raised(result, "KeyError", C6_Text(2))
        /\ arg = ApiResponse(PyStr("not-a-list"), PyInt(1))
              => Raised(result, "TypeError", C6_Text(4))

\* 'homeworks' is not a list and 'current_date' is None: check 3 decided
C6_Witness ==
    /\ result # NotCalled
    /\ arg = ApiResponse(PyStr("not-a-list"), None)
    /\ Raised(result, "KeyError", C6_Text(3))

\* --- C7 ---------------------------------------------------------------
C7_Catalogued(status) ==
    status.t = "str" /\ status.v \in {"approved", "reviewing", "rejected"}

C7_Message(homework) ==
    PyStr("Status of work changed \"" \o Format(homework.v["homework_name"])
          \o "\". " \o HOMEWORK_STATUSES[homework.v["status"].v])

\* C7 as stated: a missing name raises KeyError, otherwise a missing status
\* raises KeyError, otherwise an uncatalogued status raises
\* UnknownHomeworkStatus, otherwise the message is returned.
C7_AsStated ==
    (result # NotCalled /\ IsDict(arg)) =>
        IF ~HasKey(arg, "homework_name")
        THEN result.kind = "raise" /\ result.exc.type = "KeyError"
        ELSE IF ~HasKey(arg, "status")
        THEN result.kind = "raise" /\ result.exc.type = "KeyError"
        ELSE IF ~C7_Catalogued(arg.v["status"])
        THEN result.kind = "raise" /\ result.exc.type = "UnknownHomeworkStatus"
        ELSE result = Return(C7_Message(arg))

\* C7 amended: a name that is missing or None raises KeyError, otherwise a
\* status that is missing or None raises KeyError, otherwise a status that
\* is a list or a dict raises TypeError, otherwise an uncatalogued status
\* raises UnknownHomeworkStatus, otherwise the message is returned.
C7_ParseStatus ==
    (result # NotCalled /\ IsDict(arg)) =>
        IF ~HasKey(arg, "homework_name") \/ arg.v["homework_name"] = None
        THEN Raised(result, "KeyError", "No homework name in API response")
        ELSE IF ~HasKey(arg, "status") \/ arg.v["status"] = None
        THEN Raised(result, "KeyError", "No homework status in API response")
        ELSE IF arg.v["status"].t \in {"list", "dict"}
        THEN result.kind = "raise" /\ result.exc.type = "TypeError"
        ELSE IF ~C7_Catalogued(arg.v["status"])
        THEN result.kind = "raise" /\ result.exc.type = "UnknownHomeworkStatus"
        ELSE result = Return(C7_Message(arg))

\* an item with neither field has been rejected for its name
C7_Witness ==
    /\ result # NotCalled
    /\ arg = EmptyDict
    /\ Raised(result, "KeyError", "No homework name in API response")

\* --- the poll loop ------------------------------------------------------
InCycle == {"check_response", "for_homework", "advance", "except", "finally"}
InLoop == InCycle \cup {"get_api_answer"}

\* check_response accepts r
Accepted(r) == C6_FirstFailingNotNone(r) = 0

\* a work item with a name and a catalogued status
WellFormed(homework) ==
    /\ IsDict(homework)
    /\ HasKey(homework, "homework_name")
    /\ homework.v["homework_name"] # None
    /\ HasKey(homework, "status")
    /\ C7_Catalogued(homework.v["status"])

Items(r) == r.v["homeworks"].v

AllWellFormed(r) == \A i \in 1..Len(Items(r)) : WellFormed(Items(r)[i])

\* the calls of send_message made for work items, in order
StatusLog == SelectSeq(sent, LAMBDA m : m.by = "for_homework")
ErrorLog == SelectSeq(sent, LAMBDA m : m.by = "except")

\* log is one status message per item of the first n items of r, in order
MatchesItems(log, r, n) ==
    /\ Len(log) = n
    /\ \A i \in 1..n : /\ log[i].by = "for_homework"
                       /\ log[i].text = C7_Message(Items(r)[i])

\* --- C1 ---------------------------------------------------------------
\* C1: in a cycle whose response check_response accepts and whose N items
\* are all well-formed, send_message is called once per item, in list
\* order, with the item's status message, and with nothing else: while the
\* for loop is at item idx the calls are those for the items before it, and
\* after the loop they are exactly the N calls (none when N = 0).
C1_OnePerItem ==
    (pc \in {"for_homework", "advance", "finally"}
        /\ Accepted(response) /\ AllWellFormed(response)) =>
        MatchesItems(sent, response,
                     IF pc = "for_homework" THEN idx - 1 ELSE Len(Items(response)))

\* a cycle has ended after two different well-formed items
C1_Witness ==
    /\ pc = "finally"
    /\ Accepted(response) /\ AllWellFormed(response)
    /\ Len(Items(response)) = 2
    /\ Items(response)[1] # Items(response)[2]
    /\ Len(sent) = 2

\* --- C2 ---------------------------------------------------------------
\* C2: the cursor is assigned only at startup and at the end of the try
\* block of a cycle in which nothing was raised; it is then the response's
\* current_date, and the response was accepted with every item well-formed.
\* In a cycle that raised, the cursor is the one the cycle began with.
C2_Cursor ==
    /\ []((pc \in {"except", "finally"} /\ cycle_error # NoError)
            => current_timestamp = start.cursor)
    /\ []((pc = "finally" /\ cycle_error = NoError)
            => /\ Accepted(response) /\ AllWellFormed(response)
               /\ current_timestamp = response.v["current_date"])
    /\ [][current_timestamp' # current_timestamp
            => \/ pc = "main"
               \/ pc = "advance" /\ pc' = "finally" /\ cycle_error = NoError]_vars

\* a cycle answered with 503 has ended, after an earlier cycle had advanced
\* the cursor to 1600
C2_Witness ==
    /\ pc = "finally"
    /\ cycle_error = [t |-> "text", v |-> <<C8_HttpErrorText(503)>>]
    /\ start.cursor = PyInt(1600)
    /\ current_timestamp = PyInt(1600)

\* --- C3 ---------------------------------------------------------------
\* C3: when two consecutive cycles fail with the same error text, the
\* second one sends no error notification.
C3_AsStated ==
    (pc = "finally" /\ cycle_error # NoError /\ prev.error = cycle_error)
        => Len(ErrorLog) = 0

\* --- C4 ---------------------------------------------------------------
\* C4: inside the loop every cycle, whether or not it raised, reaches the
\* finally clause, sleeps there once for 600 seconds and then starts the
\* next fetch; nothing else starts a fetch, and the loop is never left.
C4_Sleep ==
    /\ [](pc \notin {"finally_reraise", "crashed"})
    /\ [](pc \in InCycle => sleeps = 0)
    /\ [](pc = "get_api_answer"
            => \/ sleeps = 0 /\ slept_for = 0
               \/ sleeps = 1 /\ slept_for = 600)
    /\ [][/\ pc \in InLoop => pc' \in InLoop
          /\ pc \in {"advance", "except"} => pc' = "finally"
          /\ pc = "finally"
                => pc' = "get_api_answer" /\ sleeps' = 1 /\ slept_for' = 600
          /\ (pc' = "get_api_answer" /\ pc # "main") => pc = "finally"]_vars

\* the next fetch is about to start after the sleep of a cycle that raised
C4_Witness ==
    /\ pc = "get_api_answer"
    /\ sleeps = 1
    /\ prev.error # NoError

\* --- C5 ---------------------------------------------------------------
C5_Missing ==
    \E k \in {"PRACTICUM_TOKEN", "TELEGRAM_TOKEN", "TELEGRAM_CHAT_ID"} :
        env[k] \in {None, PyStr("")}

\* C5: with a token unset or empty main exits from its start, and no GET
\* and no send_message is ever made; with all three set it enters the loop
\* and never exits.
C5_Startup ==
    /\ [](C5_Missing => /\ pc \in {"main", "exited"}
                        /\ requests = <<>> /\ sent = <<>> /\ sleeps = 0)
    /\ [](~C5_Missing => pc # "exited")
    /\ [][pc = "main"
            => pc' = IF C5_Missing THEN "exited" ELSE "get_api_answer"]_vars

\* main has exited although only TELEGRAM_CHAT_ID is empty
C5_Witness ==
    /\ pc = "exited"
    /\ env["PRACTICUM_TOKEN"] = PyStr("token")
    /\ env["TELEGRAM_TOKEN"] = PyStr("token")
    /\ env["TELEGRAM_CHAT_ID"] = PyStr("")

\* --- C9 ---------------------------------------------------------------
\* C9: a delivery that fails never reaches the except clause or leaves
\* main: a send_message for a work item is followed by the next iteration
\* or the cursor update, and a cycle with well-formed items in which a
\* delivery failed still ends with one status message per item in order,
\* the cursor at the response's current_date, PREVIOUS_ERROR as it was when
\* the cycle began, and no error notification.
C9_DeliveryFailure ==
    /\ [](pc \notin {"finally_reraise", "crashed"})
    /\ []((/\ pc = "finally"
           /\ Accepted(response) /\ AllWellFormed(response)
           /\ \E i \in 1..Len(sent) : sent[i].outcome = "failed")
            => /\ MatchesItems(sent, response, Len(Items(response)))
               /\ current_timestamp = response.v["current_date"]
               /\ PREVIOUS_ERROR = start.PREVIOUS_ERROR
               /\ cycle_error = NoError)
    /\ [][(pc = "for_homework" /\ sent' # sent)
            => /\ pc' \in {"for_homework", "advance"}
               /\ PREVIOUS_ERROR' = PREVIOUS_ERROR
               /\ cycle_error' = NoError]_vars

\* the first of two deliveries failed and the second one was still made
C9_Witness ==
    /\ pc = "finally"
    /\ Len(sent) = 2
    /\ sent[1].by = "for_homework" /\ sent[1].outcome = "failed"
    /\ sent[2].by = "for_homework" /\ sent[2].outcome = "delivered"
    /\ current_timestamp = PyInt(1600)
    /\ start.cursor = PyInt(1000)

\* --- C10 --------------------------------------------------------------
\* the positions of the items parse_status rejects
Rejected(r) == {i \in 1..Len(Items(r)) : ~WellFormed(Items(r)[i])}

FirstRejected(r) ==
    CHOOSE k \in Rejected(r) : \A i \in Rejected(r) : k <= i

\* C10: when the k-th item of an accepted response is the first one
\* parse_status rejects, the cycle raises there: status messages have been
\* sent for exactly the first k-1 items, in order, and the cursor is the
\* one the cycle began with; the cycle after one that raised queries with
\* the same from_date whenever the cursor is not 0.
C10_PartialCycle ==
    /\ []((pc \in {"except", "finally"}
            /\ Accepted(response) /\ Rejected(response) # {})
            => /\ MatchesItems(StatusLog, response, FirstRejected(response) - 1)
               /\ idx = FirstRejected(response)
               /\ cycle_error # NoError
               /\ current_timestamp = start.cursor)
    /\ []((pc \in InCycle /\ prev.error # NoError /\ current_timestamp.v # 0)
            => requests[1].from_date = prev.from_date)

\* two consecutive cycles with the same from_date have both sent the
\* status message of the same item before raising at a later item
C10_Witness ==
    /\ pc = "finally"
    /\ Accepted(response) /\ Rejected(response) # {}
    /\ prev.error # NoError
    /\ requests[1].from_date = prev.from_date
    /\ StatusTexts(sent) \cap prev.statuses # {}

====
